---- MODULE Spec2Model ----
\* A model of app.py: the song catalog, the pure helpers (recommend_songs,
\* update_habits, create_personalized_playlist, cluster_users), the JSON
\* profile store and the Streamlit script (login / main_app) run by sessions.
EXTENDS Integers, Sequences, FiniteSets, TLC

VARIABLES
    file,             \* user_profiles.json: [exists, content]
    users,            \* per session: the module-level dict `users` of its last script run
    session_username, \* per session: st.session_state.username, <<>> is None, <<u>> is u
    pc,               \* per session: "idle" (page shown), "run" (script past line 89), "rerun"
    page,             \* per session: what the current script run rendered
    call,             \* the helper call under test: its name, arguments and position
    ret               \* the helper call's results

vars == <<file, users, session_username, pc, page, call, ret>>

\* ------------------------------------------------------------------ bounds

MaxSongs == 2          \* longest `songs` argument given to update_habits
MaxHistory == 2        \* longest prior history given to update_habits
MaxTally == 3          \* longest history given to create_personalized_playlist
MaxClusterUsers == 3   \* most users in a store given to cluster_users
MaxIter == 3           \* Lloyd iterations modelled (sklearn's max_iter is larger)
MaxAppHistory == 4     \* most history events, over all users, grown by the sessions
MaxLikes == 1          \* largest like counter grown by a session

\* ------------------------------------------------------------------ catalog

Song(n, ar, g, m, ac) ==
    [song_name |-> n, artist |-> ar, genre |-> g, mood |-> m, activity |-> ac]

songs_dataset ==
    << Song("Stronger", "Kanye West", "Hip Hop", "motivational", "gym"),
       Song("Blinding Lights", "The Weeknd", "Pop", "energetic", "party"),
       Song("Someone Like You", "Adele", "Soul", "sad", "study"),
       Song("Happy", "Pharrell Williams", "Pop", "happy", "party"),
       Song("Lose Yourself", "Eminem", "Hip Hop", "motivational", "gym"),
       Song("Weightless", "Marconi Union", "Ambient", "calm", "study"),
       Song("Viva La Vida", "Coldplay", "Alternative", "energetic", "party"),
       Song("Lovely", "Billie Eilish", "Pop", "sad", "study"),
       Song("Don't Stop Me Now", "Queen", "Rock", "happy", "party"),
       Song("Circles", "Post Malone", "Pop", "calm", "study") >>

\* The options of the two selectboxes of main_app.
Moods == <<"happy", "sad", "energetic", "calm", "motivational">>
Activities == <<"gym", "study", "party">>

Range(s) == {s[i] : i \in 1..Len(s)}

Min(a, b) == IF a < b THEN a ELSE b

\* ------------------------------------------------------------------ dict
\* A Python dict keeps insertion order: a sequence of <<key, value>> pairs
\* with pairwise distinct keys.

Keys(d) == [i \in 1..Len(d) |-> d[i][1]]
KeySet(d) == {d[i][1] : i \in 1..Len(d)}
Has(d, k) == k \in KeySet(d)
Idx(d, k) == CHOOSE i \in 1..Len(d) : d[i][1] = k
Get(d, k) == d[Idx(d, k)][2]
GetOr(d, k, dflt) == IF Has(d, k) THEN Get(d, k) ELSE dflt
Put(d, k, v) ==
    IF Has(d, k) THEN [d EXCEPT ![Idx(d, k)] = <<k, v>>] ELSE Append(d, <<k, v>>)

\* ------------------------------------------------------------------ helpers

\* random.sample(population, k): any k elements at pairwise distinct
\* positions, in any order.
RandomSample(population, k) ==
    { [i \in 1..k |-> population[f[i]]] :
        f \in { g \in [1..k -> 1..Len(population)] :
                  \A i, j \in 1..k : i # j => g[i] # g[j] } }

recommend_songs_SampleOne(mood, activity) ==
    LET Match(song) == song.mood = mood /\ song.activity = activity
        matching_songs == SelectSeq(songs_dataset, Match)
    IN  RandomSample(matching_songs, Min(1, Len(matching_songs)))

\* The set of sequences recommend_songs can return.
recommend_songs(mood, activity) ==
    LET Match(song) == song.mood = mood /\ song.activity = activity
        matching_songs == SelectSeq(songs_dataset, Match)
    IN  RandomSample(matching_songs, Min(5, Len(matching_songs)))

HistoryEvent(song) ==
    [mood |-> song.mood, artist |-> song.artist, activity |-> song.activity]

NewProfile ==
    [favorite_mood |-> "", favorite_activity |-> "", listening_history |-> <<>>,
     playlists |-> <<>>, likes |-> 0]

RECURSIVE update_habits_Dedup(_, _)
update_habits_Dedup(user_profile, songs) ==
    IF songs = <<>> THEN user_profile
    ELSE update_habits_Dedup(
            IF HistoryEvent(Head(songs)) \in Range(user_profile.listening_history)
            THEN user_profile
            ELSE [user_profile EXCEPT !.listening_history =
                    Append(@, HistoryEvent(Head(songs)))],
            Tail(songs))

update_habits_Replace(user_profile, songs) ==
    [user_profile EXCEPT !.listening_history =
        [i \in 1..Len(songs) |-> HistoryEvent(songs[i])]]

\* The profile after the loop of update_habits (the list is mutated in place).
RECURSIVE update_habits(_, _)
update_habits(user_profile, songs) ==
    IF songs = <<>> THEN user_profile
    ELSE update_habits(
            [user_profile EXCEPT !.listening_history =
                Append(@, HistoryEvent(Head(songs)))],
            Tail(songs))

\* collections.Counter(items): a dict from each element to its number of
\* occurrences, keyed in order of first occurrence.
RECURSIVE CounterFrom(_, _)
CounterFrom(c, items) ==
    IF items = <<>> THEN c
    ELSE CounterFrom(Put(c, Head(items), GetOr(c, Head(items), 0) + 1), Tail(items))

Counter(items) == CounterFrom(<<>>, items)

\* Counter.most_common(1)[0]: max() over the items by count, which keeps the
\* first of several maximal items.
RECURSIVE MaxFrom(_, _)
MaxFrom(best, rest) ==
    IF rest = <<>> THEN best
    ELSE MaxFrom(IF Head(rest)[2] > best[2] THEN Head(rest) ELSE best, Tail(rest))

RECURSIVE MaxFromLast(_, _)
MaxFromLast(best, rest) ==
    IF rest = <<>> THEN best
    ELSE MaxFromLast(IF Head(rest)[2] >= best[2] THEN Head(rest) ELSE best, Tail(rest))

most_common_1_LastTie(c) == MaxFromLast(Head(c), Tail(c))

most_common_1(c) == MaxFrom(Head(c), Tail(c))

create_personalized_playlist(user_profile) ==
    LET history == user_profile.listening_history
        mood_counter == Counter([i \in 1..Len(history) |-> history[i].mood])
        favorite_mood == most_common_1(mood_counter)[1]
        IsFav(song) == song.mood = favorite_mood
        playlist == SelectSeq(songs_dataset, IsFav)
    IN  IF history = <<>> THEN <<>>
        ELSE SubSeq(playlist, 1, Min(10, Len(playlist)))

\* ------------------------------------------------------------------ clustering

\* The feature row cluster_users builds for one profile.
Feature(profile) ==
    LET history == profile.listening_history
        mood_count == Counter([i \in 1..Len(history) |-> history[i].mood])
        activity_count == Counter([i \in 1..Len(history) |-> history[i].activity])
    IN  << GetOr(mood_count, "happy", 0),
           GetOr(mood_count, "sad", 0),
           GetOr(mood_count, "energetic", 0),
           GetOr(mood_count, "calm", 0),
           GetOr(mood_count, "motivational", 0),
           GetOr(activity_count, "gym", 0),
           GetOr(activity_count, "study", 0),
           GetOr(activity_count, "party", 0) >>

\* A sequence given by a rule, computed once and held as a list (np.array).
Array(f) == f \o <<>>

\* A centre is the mean of n rows, kept exactly as [sum, n].
RECURSIVE SumSeq(_)
SumSeq(val) == IF val = <<>> THEN 0 ELSE Head(val) + SumSeq(Tail(val))

\* n^2 times the squared Euclidean distance from row x to centre c.
Dist(x, c) ==
    SumSeq([d \in 1..Len(x) |-> (c.n * x[d] - c.sum[d]) * (c.n * x[d] - c.sum[d])])

\* The position of the first smallest of the distances dist[j] / (n[j]^2).
ArgMin(dist, n) ==
    CHOOSE j \in 1..Len(dist) :
        /\ \A j2 \in 1..Len(dist) : dist[j] * n[j2] * n[j2] <= dist[j2] * n[j] * n[j]
        /\ \A j2 \in 1..(j - 1) : dist[j] * n[j2] * n[j2] < dist[j2] * n[j] * n[j]

\* The E-step: each row's nearest centre, the first of several nearest
\* (numpy's argmin), as a 0-based label.
Assign(X, C) ==
    Array([i \in 1..Len(X) |->
        ArgMin(Array([j \in 1..Len(C) |-> Dist(X[i], C[j])]),
               Array([j \in 1..Len(C) |-> C[j].n])) - 1])

\* The rows of X that carry label lab, in order.
RowsOf(X, labels, lab) ==
    LET F[i \in 0..Len(X)] ==
            IF i = 0 THEN <<>>
            ELSE IF labels[i] = lab THEN Append(F[i - 1], X[i]) ELSE F[i - 1]
    IN  F[Len(X)]

\* The mean of a non-empty sequence of rows.
Mean(rows) ==
    [sum |-> Array([d \in 1..Len(rows[1]) |-> SumSeq([r \in 1..Len(rows) |-> rows[r][d]])]),
     n |-> Len(rows)]

\* The M-step: each centre becomes the mean of its rows. A centre that lost
\* all its rows is kept where it was (scikit-learn moves it onto a far row
\* instead; either way the centre stays one of Len(C) centres).
Update(X, labels, C) ==
    Array([j \in 1..Len(C) |->
        IF RowsOf(X, labels, j - 1) = <<>> THEN C[j] ELSE Mean(RowsOf(X, labels, j - 1))])

\* Lloyd's iteration from centres C, whose E-step gave `labels`: stop when
\* the labels no longer change or after `iters` rounds; the labels returned
\* are those of the last centres.
RECURSIVE Lloyd(_, _, _, _)
Lloyd(X, C, labels, iters) ==
    LET C2 == Update(X, labels, C)
        labels2 == Assign(X, C2)
    IN  IF iters = 0 \/ labels2 = labels THEN labels2
        ELSE Lloyd(X, C2, labels2, iters - 1)

\* KMeans(n_clusters).fit_predict(X), started from the rows at positions
\* init. The library draws init at random; every choice of Len(init) row
\* positions, repeated ones included, is allowed here.
fit_predict(X, init) ==
    LET C == Array([j \in 1..Len(init) |-> [sum |-> X[init[j]], n |-> 1]])
    IN  Lloyd(X, C, Assign(X, C), MaxIter)

cluster_users_AtLeastThree(users_, init) ==
    IF Len(users_) < 3 THEN <<>>
    ELSE LET features == Array([i \in 1..Len(users_) |-> Feature(users_[i][2])])
             usernames == Keys(users_)
             labels == fit_predict(features, init)
         IN  Array([i \in 1..Min(Len(usernames), Len(labels)) |-> <<usernames[i], labels[i]>>])

\* The initial centres KMeans may draw for a store: n_clusters row positions.
Inits(users_) == [1..Min(2, Len(users_)) -> 1..Len(users_)]

\* cluster_users(users), with the random initial centres as a parameter.
cluster_users(users_, init) ==
    IF Len(users_) < 2 THEN <<>>
    ELSE LET features == Array([i \in 1..Len(users_) |-> Feature(users_[i][2])])
             usernames == Keys(users_)
             labels == fit_predict(features, init)
         IN  Array([i \in 1..Min(Len(usernames), Len(labels)) |-> <<usernames[i], labels[i]>>])

\* ------------------------------------------------------------------ store

Sessions == {1, 2}

\* No user_profiles.json yet.
NoFile == [exists |-> FALSE, content |-> <<>>]

json_dump_Truncated(d) == IF d = <<>> THEN <<>> ELSE <<[name |-> d[1][1], value |-> d[1][2]]>>

\* json.dump(users, f): the document is an object, one member per key, in
\* the dict's order.
json_dump(d) == [i \in 1..Len(d) |-> [name |-> d[i][1], value |-> d[i][2]]]

\* json.load(f): the members of the object, as a dict in document order.
json_load(doc) == [i \in 1..Len(doc) |-> <<doc[i].name, doc[i].value>>]

load_users(f) == IF f.exists THEN json_load(f.content) ELSE <<>>

save_users(d) == [exists |-> TRUE, content |-> json_dump(d)]

None == <<>>

NoPage == [menu |-> "", input |-> <<>>, msg |-> "", items |-> <<>>]

NoCall ==
    [op |-> "", pos |-> "", mood |-> "", activity |-> "", profile |-> NewProfile,
     songs |-> <<>>, users |-> <<>>]

NoRet == [songs |-> <<>>, profile |-> NewProfile, pairs |-> <<>>, init |-> <<>>, again |-> <<>>]

\* The process before any interaction: no file, every session on the login page.
AppStart ==
    /\ file = NoFile
    /\ users = [s \in Sessions |-> <<>>]
    /\ session_username = [s \in Sessions |-> None]
    /\ pc = [s \in Sessions |-> "idle"]
    /\ page = [s \in Sessions |-> NoPage]

AppVars == <<file, users, session_username, pc, page>>

\* ------------------------------------------------------------------ helper calls
\* The helpers applied to arguments drawn from bounded sets.

SeqsUpTo(S, n) == UNION {[1..k -> S] : k \in 0..n}

NamePool == <<"a", "b", "", "c", "d">>

\* Events of five catalog songs: four moods, two songs of one mood.
TallyEvents == {HistoryEvent(songs_dataset[i]) : i \in {3, 4, 6, 7, 9}}

SampleEvents == {HistoryEvent(songs_dataset[i]) : i \in {2, 4, 8}}

SampleSongs == {songs_dataset[i] : i \in {1, 4, 5, 8}}

SampleHistories ==
    { <<>>,
      <<HistoryEvent(songs_dataset[4]), HistoryEvent(songs_dataset[9])>>,
      <<HistoryEvent(songs_dataset[8]), HistoryEvent(songs_dataset[3])>> }

WithHistory(h) == [NewProfile EXCEPT !.listening_history = h]

\* Stores of up to MaxClusterUsers users, in every key order.
SampleStores ==
    LET names == {NamePool[i] : i \in 1..Min(MaxClusterUsers, Len(NamePool))}
        keyseqs == {k \in SeqsUpTo(names, MaxClusterUsers) :
                      \A i, j \in 1..Len(k) : i # j => k[i] # k[j]}
    IN  UNION { { [i \in 1..Len(k) |-> <<k[i], WithHistory(h[i])>>] :
                    h \in [1..Len(k) -> SampleHistories] } : k \in keyseqs }

CallInputs ==
    { [NoCall EXCEPT !.op = "recommend_songs", !.pos = "ready",
                     !.mood = m, !.activity = a] :
        m \in Range(Moods) \cup {"Happy"}, a \in Range(Activities) \cup {"Gym"} }
    \cup
    { [NoCall EXCEPT !.op = "update_habits", !.pos = "ready",
                     !.profile = WithHistory(h), !.songs = sg] :
        h \in SeqsUpTo(SampleEvents, MaxHistory),
        sg \in SeqsUpTo(SampleSongs, MaxSongs) }
    \cup
    { [NoCall EXCEPT !.op = "create_personalized_playlist", !.pos = "ready",
                     !.profile = WithHistory(h)] :
        h \in SeqsUpTo(TallyEvents, MaxTally) }
    \cup
    { [NoCall EXCEPT !.op = "cluster_users", !.pos = "ready", !.users = u] :
        u \in SampleStores }

InitFn ==
    /\ AppStart
    /\ call \in CallInputs
    /\ ret = NoRet

CallRecommend ==
    /\ call.op = "recommend_songs" /\ call.pos = "ready"
    /\ \E recs \in recommend_songs(call.mood, call.activity) :
          ret' = [ret EXCEPT !.songs = recs]
    /\ call' = [call EXCEPT !.pos = "done"]
    /\ UNCHANGED AppVars

CallUpdateHabits ==
    /\ call.op = "update_habits" /\ call.pos = "ready"
    /\ ret' = [ret EXCEPT !.profile = update_habits(call.profile, call.songs)]
    /\ call' = [call EXCEPT !.pos = "done"]
    /\ UNCHANGED AppVars

CallPlaylist ==
    /\ call.op = "create_personalized_playlist" /\ call.pos = "ready"
    /\ ret' = [ret EXCEPT !.songs = create_personalized_playlist(call.profile)]
    /\ call' = [call EXCEPT !.pos = "done"]
    /\ UNCHANGED AppVars

\* A second call on the same, unchanged profile.
CallPlaylistAgain ==
    /\ call.op = "create_personalized_playlist" /\ call.pos = "done"
    /\ ret' = [ret EXCEPT !.again = create_personalized_playlist(call.profile)]
    /\ call' = [call EXCEPT !.pos = "again"]
    /\ UNCHANGED AppVars

CallCluster ==
    /\ call.op = "cluster_users" /\ call.pos = "ready"
    /\ \E init \in Inits(call.users) :
          ret' = [ret EXCEPT !.pairs = cluster_users(call.users, init), !.init = init]
    /\ call' = [call EXCEPT !.pos = "done"]
    /\ UNCHANGED AppVars

NextFn ==
    \/ CallRecommend
    \/ CallUpdateHabits
    \/ CallPlaylist
    \/ CallPlaylistAgain
    \/ CallCluster

SpecFn == InitFn /\ [][NextFn]_vars

\* ------------------------------------------------------------------ the Streamlit script
\* A script run starts at the top of app.py (Rerun: lines 85-89), is routed
\* by st.session_state.username (lines 190-193) and then runs the branch of
\* login() or main_app() that the widgets of this run select.

\* The usernames typed into the text inputs.
AppUsernames == {"", "a", "b"}

\* The selectbox choices made in the sessions: two pairs that match songs
\* and two that match none.
AppMoods == {"happy", "sad"}
AppActivities == {"party", "study"}

\* The number of history events a store holds.
RECURSIVE TotalHistory(_)
TotalHistory(d) ==
    IF d = <<>> THEN 0 ELSE Len(Head(d)[2].listening_history) + TotalHistory(Tail(d))

\* Python truthiness of st.session_state.username: None and "" are false.
Truthy(v) == v # None /\ v[1] # ""

Routing(s) == IF Truthy(session_username[s]) THEN "main_app" ELSE "login"

Shown(s, menu, input, msg, items) ==
    page' = [page EXCEPT ![s] = [menu |-> menu, input |-> input, msg |-> msg, items |-> items]]

Goto(s, where) == pc' = [pc EXCEPT ![s] = where]

Me(s) == session_username[s][1]

\* Lines 85-89: the script starts over, the old page is dropped and the
\* whole store is read again.
Rerun(s) ==
    /\ pc[s] \in {"idle", "rerun"}
    /\ users' = [users EXCEPT ![s] = load_users(file)]
    /\ Shown(s, "", <<>>, "", <<>>)
    /\ Goto(s, "run")
    /\ UNCHANGED <<file, session_username, call, ret>>

\* login() with no button pressed.
LoginPage(s) ==
    /\ pc[s] = "run" /\ Routing(s) = "login"
    /\ Shown(s, "Login or Register", <<>>, "", <<>>)
    /\ Goto(s, "idle")
    /\ UNCHANGED <<file, users, session_username, call, ret>>

\* login(), lines 96-104: the Login button.
Login(s, username) ==
    /\ pc[s] = "run" /\ Routing(s) = "login"
    /\ IF Has(users[s], username)
       THEN /\ session_username' = [session_username EXCEPT ![s] = <<username>>]
            /\ Shown(s, "Login", <<username>>, "Welcome back", <<>>)
            /\ Goto(s, "rerun")
       ELSE /\ Shown(s, "Login", <<username>>, "Username not found.", <<>>)
            /\ Goto(s, "idle")
            /\ UNCHANGED session_username
    /\ UNCHANGED <<file, users, call, ret>>

RegisterOverwrite(s, new_username) ==
    /\ pc[s] = "run" /\ Routing(s) = "login"
    /\ users' = [users EXCEPT ![s] = Put(@, new_username, NewProfile)]
    /\ file' = save_users(users'[s])
    /\ session_username' = [session_username EXCEPT ![s] = <<new_username>>]
    /\ Shown(s, "Register", <<new_username>>, "Registration successful!", <<>>)
    /\ Goto(s, "rerun")
    /\ UNCHANGED <<call, ret>>

\* login(), lines 105-121: the Register button.
Register(s, new_username) ==
    /\ pc[s] = "run" /\ Routing(s) = "login"
    /\ IF Has(users[s], new_username)
       THEN /\ Shown(s, "Register", <<new_username>>, "Username already exists.", <<>>)
            /\ Goto(s, "idle")
            /\ UNCHANGED <<file, users, session_username>>
       ELSE /\ users' = [users EXCEPT ![s] = Put(@, new_username, NewProfile)]
            /\ file' = save_users(users'[s])
            /\ session_username' = [session_username EXCEPT ![s] = <<new_username>>]
            /\ Shown(s, "Register", <<new_username>>, "Registration successful!", <<>>)
            /\ Goto(s, "rerun")
    /\ UNCHANGED <<call, ret>>

\* main_app(), lines 127-129.
Home(s) ==
    /\ pc[s] = "run" /\ Routing(s) = "main_app"
    /\ Shown(s, "Home", <<>>, "", <<>>)
    /\ Goto(s, "idle")
    /\ UNCHANGED <<file, users, session_username, call, ret>>

\* users[st.session_state.username] raises KeyError when the store read by
\* this run has no such key: the run ends there, nothing is saved.
KeyError(s, menu, input) ==
    /\ Shown(s, menu, input, "KeyError", <<>>)
    /\ Goto(s, "idle")
    /\ UNCHANGED <<file, users, session_username>>

\* main_app(), lines 131-145: the Recommend Songs button.
GetRecommendations(s, mood, activity) ==
    /\ pc[s] = "run" /\ Routing(s) = "main_app"
    /\ \E recs \in recommend_songs(mood, activity) :
          IF recs # <<>>
          THEN IF Has(users[s], Me(s))
               THEN /\ TotalHistory(users[s]) + Len(recs) <= MaxAppHistory
                    /\ users' = [users EXCEPT ![s] =
                                    Put(@, Me(s), update_habits(Get(@, Me(s)), recs))]
                    /\ file' = save_users(users'[s])
                    /\ Shown(s, "Get Recommendations", <<mood, activity>>,
                             "Recommended Songs:", recs)
                    /\ Goto(s, "idle")
                    /\ UNCHANGED session_username
               ELSE KeyError(s, "Get Recommendations", <<mood, activity>>)
          ELSE /\ Shown(s, "Get Recommendations", <<mood, activity>>,
                        "No matching songs found.", <<>>)
               /\ Goto(s, "idle")
               /\ UNCHANGED <<file, users, session_username>>
    /\ UNCHANGED <<call, ret>>

\* main_app(), lines 147-156.
MyPlaylist(s) ==
    /\ pc[s] = "run" /\ Routing(s) = "main_app"
    /\ IF Has(users[s], Me(s))
       THEN LET playlist == create_personalized_playlist(Get(users[s], Me(s)))
            IN  IF playlist # <<>>
                THEN /\ users' = [users EXCEPT ![s] =
                                    Put(@, Me(s), [Get(@, Me(s)) EXCEPT !.playlists = playlist])]
                     /\ file' = save_users(users'[s])
                     /\ Shown(s, "My Playlist", <<>>, "", playlist)
                     /\ Goto(s, "idle")
                     /\ UNCHANGED session_username
                ELSE /\ Shown(s, "My Playlist", <<>>, "Not enough listening history yet.", <<>>)
                     /\ Goto(s, "idle")
                     /\ UNCHANGED <<file, users, session_username>>
       ELSE KeyError(s, "My Playlist", <<>>)
    /\ UNCHANGED <<call, ret>>

PublicListingAll(d, me) ==
    LET Other(e) == e[1] # me
        shown == SelectSeq(d, Other)
    IN  [i \in 1..Len(shown) |->
            [user |-> shown[i][1], likes |-> shown[i][2].likes,
             playlists |-> shown[i][2].playlists]]

\* The expanders the loop of lines 160-164 renders for store d: one per
\* other user with a non-empty playlists list, in the store's order.
PublicListing(d, me) ==
    LET Listed(e) == e[1] # me /\ e[2].playlists # <<>>
        shown == SelectSeq(d, Listed)
    IN  [i \in 1..Len(shown) |->
            [user |-> shown[i][1], likes |-> shown[i][2].likes,
             playlists |-> shown[i][2].playlists]]

\* main_app(), lines 158-164, no Like button pressed.
PublicPlaylists(s) ==
    /\ pc[s] = "run" /\ Routing(s) = "main_app"
    /\ Shown(s, "Public Playlists", <<>>, "", PublicListing(users[s], Me(s)))
    /\ Goto(s, "idle")
    /\ UNCHANGED <<file, users, session_username, call, ret>>

\* Line 166: users[user]['likes'] += 1.
LikeOne(d, user) == Put(d, user, [Get(d, user) EXCEPT !.likes = @ + 1])

LikeNoSave(s, user) ==
    /\ pc[s] = "run" /\ Routing(s) = "main_app"
    /\ \E i \in 1..Len(PublicListing(users[s], Me(s))) :
          PublicListing(users[s], Me(s))[i].user = user
    /\ Get(users[s], user).likes < MaxLikes
    /\ users' = [users EXCEPT ![s] = LikeOne(@, user)]
    /\ Shown(s, "Public Playlists", <<user>>, "Liked!", PublicListing(users[s], Me(s)))
    /\ Goto(s, "idle")
    /\ UNCHANGED <<file, session_username, call, ret>>

\* main_app(), lines 158-168, the Like button of a rendered expander pressed.
Like(s, user) ==
    /\ pc[s] = "run" /\ Routing(s) = "main_app"
    /\ \E i \in 1..Len(PublicListing(users[s], Me(s))) :
          PublicListing(users[s], Me(s))[i].user = user
    /\ Get(users[s], user).likes < MaxLikes
    /\ users' = [users EXCEPT ![s] = LikeOne(@, user)]
    /\ file' = save_users(users'[s])
    /\ Shown(s, "Public Playlists", <<user>>, "Liked!", PublicListing(users[s], Me(s)))
    /\ Goto(s, "idle")
    /\ UNCHANGED <<session_username, call, ret>>

\* main_app(), lines 170-177.
ClusterUsers(s) ==
    /\ pc[s] = "run" /\ Routing(s) = "main_app"
    /\ \E init \in Inits(users[s]) :
          LET cluster_result == cluster_users(users[s], init)
          IN  IF cluster_result # <<>>
              THEN Shown(s, "Cluster Users", <<>>, "", cluster_result)
              ELSE Shown(s, "Cluster Users", <<>>, "Not enough users to cluster.", <<>>)
    /\ Goto(s, "idle")
    /\ UNCHANGED <<file, users, session_username, call, ret>>

\* main_app(), lines 179-183, the Submit Feedback button.
Feedback(s) ==
    /\ pc[s] = "run" /\ Routing(s) = "main_app"
    /\ Shown(s, "Feedback", <<>>, "Thanks for your feedback!", <<>>)
    /\ Goto(s, "idle")
    /\ UNCHANGED <<file, users, session_username, call, ret>>

\* main_app(), lines 185-187.
Logout(s) ==
    /\ pc[s] = "run" /\ Routing(s) = "main_app"
    /\ session_username' = [session_username EXCEPT ![s] = None]
    /\ Shown(s, "Logout", <<>>, "", <<>>)
    /\ Goto(s, "rerun")
    /\ UNCHANGED <<file, users, call, ret>>

Init ==
    /\ AppStart
    /\ call = NoCall
    /\ ret = NoRet

Step(s) ==
    \/ Rerun(s)
    \/ LoginPage(s)
    \/ \E username \in AppUsernames : Login(s, username)
    \/ \E new_username \in AppUsernames : Register(s, new_username)
    \/ Home(s)
    \/ \E mood \in AppMoods, activity \in AppActivities : GetRecommendations(s, mood, activity)
    \/ MyPlaylist(s)
    \/ PublicPlaylists(s)
    \/ \E user \in AppUsernames : Like(s, user)
    \/ ClusterUsers(s)
    \/ Feedback(s)
    \/ Logout(s)

\* One browser session.
Next == Step(1)

Spec == Init /\ [][Next]_vars

\* Two browser sessions on one server process and one file. Both users are
\* registered and each session is logged in as its own user, on the Home
\* page: the state after Register "a" in session 1, Register "b" in
\* session 2 and a Home run of each.
InitRace ==
    /\ file = [exists |-> TRUE,
                content |-> << [name |-> "a", value |-> NewProfile],
                               [name |-> "b", value |-> NewProfile] >>]
    /\ users = [s \in Sessions |-> load_users(file)]
    /\ session_username = [s \in Sessions |-> IF s = 1 THEN <<"a">> ELSE <<"b">>]
    /\ pc = [s \in Sessions |-> "idle"]
    /\ page = [s \in Sessions |-> [menu |-> "Home", input |-> <<>>, msg |-> "", items |-> <<>>]]
    /\ call = NoCall
    /\ ret = NoRet

\* The script runs of the two sessions interleave between the load of line
\* 89 and the handler that mutates and saves.
StepRace(s) ==
    \/ Rerun(s)
    \/ \E mood \in AppMoods, activity \in AppActivities : GetRecommendations(s, mood, activity)
    \/ MyPlaylist(s)
    \/ \E user \in AppUsernames : Like(s, user)

NextRace == \E s \in Sessions : StepRace(s)

SpecRace == InitRace /\ [][NextRace]_vars

\* ------------------------------------------------------------------ claims on the helpers

Returned(op) == call.op = op /\ call.pos # "ready"

\* The catalog positions a (mood, activity) pair matches.
MatchingPositions(mood, activity) ==
    {i \in 1..Len(songs_dataset) :
        songs_dataset[i].mood = mood /\ songs_dataset[i].activity = activity}

\* C1: recommend_songs returns pairwise distinct catalog entries, all of the
\* asked mood and activity, min(5, number of matches) of them: none when
\* nothing matches, and exactly {Stronger, Lose Yourself} for (motivational, gym).
C1_Recommend ==
    Returned("recommend_songs") =>
        LET recs == ret.songs
            hits == MatchingPositions(call.mood, call.activity)
        IN  /\ \A i \in 1..Len(recs) :
                 /\ \E j \in 1..Len(songs_dataset) : recs[i] = songs_dataset[j]
                 /\ recs[i].mood = call.mood
                 /\ recs[i].activity = call.activity
            /\ \A i, j \in 1..Len(recs) : i # j => recs[i] # recs[j]
            /\ Len(recs) = Min(5, Cardinality(hits))
            /\ (hits = {} => recs = <<>>)
            /\ (call.mood = "motivational" /\ call.activity = "gym" =>
                  {recs[i].song_name : i \in 1..Len(recs)} = {"Stronger", "Lose Yourself"})

C1_Witness ==
    /\ Returned("recommend_songs")
    /\ call.mood = "motivational" /\ call.activity = "gym"
    /\ Len(ret.songs) = 2
    /\ ret.songs[1].song_name = "Lose Yourself"

\* C2: update_habits keeps the old history as a prefix and appends one
\* {mood, artist, activity} event per song, in input order, duplicates
\* included; nothing else of the profile changes.
C2_UpdateHabits ==
    Returned("update_habits") =>
        LET before == call.profile.listening_history
            after == ret.profile.listening_history
        IN  /\ Len(after) = Len(before) + Len(call.songs)
            /\ SubSeq(after, 1, Len(before)) = before
            /\ \A i \in 1..Len(call.songs) :
                 after[Len(before) + i] =
                    [mood |-> call.songs[i].mood, artist |-> call.songs[i].artist,
                     activity |-> call.songs[i].activity]
            /\ (call.songs = <<>> => ret.profile = call.profile)
            /\ [ret.profile EXCEPT !.listening_history = before] = call.profile

C2_Witness ==
    /\ Returned("update_habits")
    /\ Len(call.songs) = 2 /\ call.songs[1] = call.songs[2]
    /\ \E i \in 1..Len(call.profile.listening_history) :
          call.profile.listening_history[i].artist = call.songs[1].artist
    /\ Len(ret.profile.listening_history) = Len(call.profile.listening_history) + 2

\* How often, and where first, a mood occurs in a history.
Occurrences(history, mood) == Cardinality({i \in 1..Len(history) : history[i].mood = mood})
FirstAt(history, mood) ==
    CHOOSE i \in 1..Len(history) :
        history[i].mood = mood /\ \A j \in 1..(i - 1) : history[j].mood # mood

\* The catalog entries of a mood, in declaration order.
IsCatalogOrder(list, mood) ==
    LET at == {i \in 1..Len(songs_dataset) : songs_dataset[i].mood = mood}
    IN  /\ Len(list) = Min(10, Cardinality(at))
        /\ \A k \in 1..Len(list) :
             \E i \in at : Cardinality({j \in at : j < i}) = k - 1 /\ list[k] = songs_dataset[i]

\* C3: create_personalized_playlist returns nothing for an empty history;
\* otherwise the catalog entries, in catalog order and at most 10, of the most
\* frequent mood of the history, ties going to the mood met first; a second
\* call on the unchanged history returns the same list.
C3_Playlist ==
    Returned("create_personalized_playlist") =>
        LET history == call.profile.listening_history
            moods == {history[i].mood : i \in 1..Len(history)}
        IN  /\ (history = <<>> => ret.songs = <<>>)
            /\ (history # <<>> =>
                  \E fav \in moods :
                     /\ \A m \in moods : Occurrences(history, m) <= Occurrences(history, fav)
                     /\ \A m \in moods \ {fav} :
                          Occurrences(history, m) = Occurrences(history, fav) =>
                             FirstAt(history, fav) < FirstAt(history, m)
                     /\ IsCatalogOrder(ret.songs, fav)
                     /\ Len(ret.songs) <= 10)
            /\ (call.pos = "again" => ret.again = ret.songs)

C3_Witness ==
    /\ Returned("create_personalized_playlist") /\ call.pos = "again"
    /\ Len(call.profile.listening_history) = 3
    /\ call.profile.listening_history[1].mood = "sad"
    /\ call.profile.listening_history[2].mood = "happy"
    /\ call.profile.listening_history[3].mood = "calm"
    /\ Len(ret.songs) = 2 /\ ret.songs[1].song_name = "Someone Like You"

\* C4: cluster_users returns nothing for fewer than 2 users; for N >= 2 users
\* it returns N (username, label) pairs, one per stored username, every label
\* in 0..min(2,N)-1, whatever the initial centres.
C4_Cluster ==
    Returned("cluster_users") =>
        LET N == Len(call.users)
            pairs == ret.pairs
        IN  /\ (N < 2 => pairs = <<>>)
            /\ (N >= 2 =>
                  /\ Len(pairs) = N
                  /\ {pairs[i][1] : i \in 1..Len(pairs)} = KeySet(call.users)
                  /\ \A i \in 1..Len(pairs) : pairs[i][2] \in 0..(Min(2, N) - 1))

C4_Witness ==
    /\ Returned("cluster_users")
    /\ Len(call.users) = 3 /\ Len(ret.pairs) = 3
    /\ ret.pairs[1][2] = 1 /\ ret.pairs[2][2] = 0 /\ ret.pairs[3][2] = 1

\* ------------------------------------------------------------------ claims on the application

\* A handler of session s has just finished a run that rendered `menu`.
Ran(s, menu) == pc[s] = "run" /\ pc'[s] # "run" /\ page'[s].menu = menu

IsPrefix(a, b) == Len(a) <= Len(b) /\ SubSeq(b, 1, Len(a)) = a

History(d, u) == IF Has(d, u) THEN Get(d, u).listening_history ELSE <<>>

\* What a Register run does to the store, for C5.
C5_RegisterStep ==
    \A s \in Sessions :
        Ran(s, "Register") =>
            LET new == page'[s].input[1]
            IN  IF Has(users[s], new)
                THEN /\ page'[s].msg = "Username already exists."
                     /\ users'[s] = users[s]
                     /\ file' = file
                     /\ session_username'[s] = session_username[s]
                ELSE /\ Len(users'[s]) = Len(users[s]) + 1
                     /\ KeySet(users'[s]) = KeySet(users[s]) \cup {new}
                     /\ Get(users'[s], new).listening_history = <<>>
                     /\ Get(users'[s], new).playlists = <<>>
                     /\ Get(users'[s], new).likes = 0
                     /\ \A u \in KeySet(users[s]) : Get(users'[s], u) = Get(users[s], u)
                     /\ load_users(file') = users'[s]

\* C5: Register of a new username adds one profile with empty history, empty
\* playlists and likes 0 and leaves the other profiles alone; Register of a
\* stored username reports it and changes neither the in-memory store, the
\* file nor the session's username.
C5_Register == [][C5_RegisterStep]_vars

C5_Witness ==
    /\ pc[1] = "idle"
    /\ page[1].menu = "Register" /\ page[1].msg = "Username already exists."
    /\ page[1].input = <<"a">>
    /\ Len(users[1]) = 2
    /\ Get(users[1], "a").listening_history # <<>>
    /\ Get(users[1], "a").playlists # <<>>

\* A Public Playlists page rendered with no Like pressed.
Viewing(s) == pc[s] = "idle" /\ page[s].menu = "Public Playlists" /\ page[s].msg = ""

ListedUsers(s) == {page[s].items[i].user : i \in 1..Len(page[s].items)}

\* The rendered entries carry the listed users' current playlists and likes.
ListingIsCurrent(s) ==
    /\ Cardinality(ListedUsers(s)) = Len(page[s].items)
    /\ \A i \in 1..Len(page[s].items) :
         /\ Has(users[s], page[s].items[i].user)
         /\ page[s].items[i].playlists = Get(users[s], page[s].items[i].user).playlists
         /\ page[s].items[i].likes = Get(users[s], page[s].items[i].user).likes

\* A Like of a listed user adds one to that user's likes, changes nothing
\* else of any profile, and is saved.
LikeStep ==
    \A s \in Sessions :
        (Ran(s, "Public Playlists") /\ page'[s].msg = "Liked!") =>
            LET user == page'[s].input[1]
            IN  /\ user \in {page'[s].items[i].user : i \in 1..Len(page'[s].items)}
                /\ Keys(users'[s]) = Keys(users[s])
                /\ Get(users'[s], user).likes = Get(users[s], user).likes + 1
                /\ [Get(users'[s], user) EXCEPT !.likes = @ - 1] = Get(users[s], user)
                /\ \A u \in KeySet(users[s]) \ {user} : Get(users'[s], u) = Get(users[s], u)
                /\ load_users(file') = users'[s]

\* C6, as stated: Public Playlists lists every user other than the logged-in
\* one, with that user's current playlists and likes.
C6_ListsEveryOtherUser ==
    \A s \in Sessions :
        Viewing(s) =>
            /\ ListedUsers(s) = KeySet(users[s]) \ {Me(s)}
            /\ ListingIsCurrent(s)

\* The users listed are the other users with a non-empty playlists list.
C6_ListsOthersWithPlaylists ==
    \A s \in Sessions :
        Viewing(s) =>
            /\ ListedUsers(s) =
                  {u \in KeySet(users[s]) \ {Me(s)} : Get(users[s], u).playlists # <<>>}
            /\ ListingIsCurrent(s)

\* C6, amended: Public Playlists lists exactly the users other than the
\* logged-in one whose playlists list is not empty, with their current
\* playlists and likes; a Like of a listed user adds one to that user's likes,
\* changes no other field of any profile, and is saved.
C6_Public == [](C6_ListsOthersWithPlaylists) /\ [][LikeStep]_vars

C6_Witness ==
    /\ pc[1] = "idle"
    /\ page[1].menu = "Public Playlists" /\ page[1].msg = "Liked!"
    /\ Len(users[1]) = 3
    /\ Len(page[1].items) = 1
    /\ Get(users[1], page[1].input[1]).likes = 1

\* C7: with one session, after every operation the persisted store equals
\* the in-memory users dict, an absent file counting as the empty dict.
C7_InSync ==
    pc[1] \in {"idle", "rerun"} =>
        /\ load_users(file) = users[1]
        /\ (~file.exists => users[1] = <<>>)

C7_Witness ==
    /\ pc[1] = "idle"
    /\ page[1].msg = "Liked!"
    /\ file.exists
    /\ Len(file.content) = 3
    /\ \E i \in 1..Len(file.content) : file.content[i].value.likes = 1

\* What a saving run does to the records it did not mutate, for C8.
C8_SaveStep ==
    \A s \in Sessions :
        (pc[s] = "run" /\ pc'[s] # "run" /\ file' # file) =>
            \A u \in KeySet(users[s]) :
                Get(users'[s], u) = Get(users[s], u) =>
                    /\ Has(load_users(file'), u)
                    /\ Get(load_users(file'), u) = Get(users[s], u)
                    /\ (Get(load_users(file), u) # Get(users[s], u) =>
                           Get(load_users(file'), u) # Get(load_users(file), u))

\* C8: with two sessions, a save writes the saving session's whole dict: the
\* record of every user this run did not mutate goes to the file as this run
\* loaded it, so a change another session saved after that load is lost.
C8_LostUpdate == [][C8_SaveStep]_vars

\* Both sessions loaded, session 1 saved recommendations for "a", session 2
\* then saved recommendations for "b": the file has lost those of "a".
C8_Witness ==
    /\ pc[1] = "idle" /\ pc[2] = "idle"
    /\ page[1].msg = "Recommended Songs:" /\ page[2].msg = "Recommended Songs:"
    /\ History(users[1], "a") # <<>>
    /\ History(load_users(file), "a") = <<>>
    /\ History(load_users(file), "b") # <<>>
    /\ file = save_users(users[2])

\* What one step may do to a user's listening history, for C9.
C9_HistoryStep ==
    \A u \in AppUsernames :
        /\ IsPrefix(History(load_users(file), u), History(load_users(file'), u))
        /\ \A s \in Sessions :
             /\ IsPrefix(History(users[s], u), History(users'[s], u))
             /\ (History(users'[s], u) # History(users[s], u)
                  \/ History(load_users(file'), u) # History(load_users(file), u))
                 => \E t \in Sessions :
                       /\ Ran(t, "Get Recommendations")
                       /\ page'[t].items # <<>>
                       /\ session_username[t] = <<u>>

C10_LoggedInAfterSuccess ==
    /\ (pc[1] = "rerun" /\ page[1].menu \in {"Login", "Register"}) =>
          /\ session_username[1] = page[1].input
          /\ Routing(1) = "main_app"
    /\ (session_username[1] # None => Has(load_users(file), Me(1)))

====
